---------------------------- MODULE Spec2Model ----------------------------
(***************************************************************************)
(* Model of the account-age estimation engine, src/age_estimator.py:       *)
(* the configuration tables USER_ID_RANGES and USERNAME_PATTERNS and the   *)
(* static methods of AgeCalculator.                                        *)
(*                                                                         *)
(* Representation.                                                         *)
(*  - A Python str is a sequence of characters, each character a           *)
(*    one-element TLA+ string ("7", "a", ...) or the name of a             *)
(*    non-ASCII / control character ("sup2", "ar3", "eacute", "nl").       *)
(*  - A Python int that may exceed 32 bits (a user id) is a sequence of    *)
(*    decimal digits without leading zeros, <<0>> being zero.              *)
(*  - A datetime is a record [year, month, day, hour, minute] in UTC;      *)
(*    timestamp() counts whole minutes since 1970-01-01T00:00Z (three      *)
(*    epoch-second timestamps times their weights do not fit TLC's 32-bit  *)
(*    integers; every table date is a midnight, so no precision is lost).  *)
(*  - Optional[T] is a sequence: None is <<>>, a value x is <<x>>.         *)
(***************************************************************************)
EXTENDS Integers, Sequences, FiniteSets, Bags, TLC

VARIABLES now,      \* the wall clock read by datetime.now(pytz.UTC)
          cache,    \* the lru_cache of estimate_account_age: key -> result
          inflight, \* the calls that missed the cache and have not returned
          calls,    \* number of calls made so far
          op,       \* the operation called last
          args,     \* its arguments (a call that does not bind: as written)
          ret       \* what it gave back: [kind |-> "return", value |-> v]
                    \* or [kind |-> "raise", value |-> exception name]

vars == <<now, cache, inflight, calls, op, args, ret>>

None == <<>>
Some(x) == <<x>>

(***************************************************************************)
(* datetime: the proleptic Gregorian calendar of Python's datetime module. *)
(***************************************************************************)
is_leap(year) == (year % 4 = 0) /\ ((year % 100 # 0) \/ (year % 400 = 0))

days_in_month(year, month) ==
    IF month = 2 THEN (IF is_leap(year) THEN 29 ELSE 28)
    ELSE IF month \in {4, 6, 9, 11} THEN 30 ELSE 31

\* Days in the years before `year` (year 1 is the first).
days_before_year(year) ==
    LET y == year - 1 IN y * 365 + (y \div 4) - (y \div 100) + (y \div 400)

RECURSIVE days_before_month(_, _)
days_before_month(year, month) ==
    IF month = 1 THEN 0
    ELSE days_before_month(year, month - 1) + days_in_month(year, month - 1)

\* date.toordinal(): 0001-01-01 is day 1.
ymd2ord(year, month, day) ==
    days_before_year(year) + days_before_month(year, month) + day

EpochOrdinal == ymd2ord(1970, 1, 1)

MinutesPerDay == 1440

datetime(year, month, day) ==
    [year |-> year, month |-> month, day |-> day, hour |-> 0, minute |-> 0]

datetime_hm(year, month, day, hour, minute) ==
    [year |-> year, month |-> month, day |-> day, hour |-> hour, minute |-> minute]

\* datetime.timestamp() of an aware UTC datetime, in minutes.
timestamp(dt) ==
    (ymd2ord(dt.year, dt.month, dt.day) - EpochOrdinal) * MinutesPerDay
        + dt.hour * 60 + dt.minute

\* date.fromordinal(): the year and month that hold ordinal day n.
ord2ymd(n) ==
    LET year  == CHOOSE y \in 1970..2100 :
                     days_before_year(y) < n /\ n <= days_before_year(y + 1)
        rest  == n - days_before_year(year)
        month == CHOOSE m \in 1..12 :
                     /\ days_before_month(year, m) < rest
                     /\ rest <= days_before_month(year, m) + days_in_month(year, m)
    IN  [year |-> year, month |-> month,
         day |-> rest - days_before_month(year, month)]

\* datetime.fromtimestamp(ts, tz=pytz.UTC), ts in minutes.
fromtimestamp(ts) ==
    LET d == ord2ymd((ts \div MinutesPerDay) + EpochOrdinal)
        m == ts % MinutesPerDay
    IN  datetime_hm(d.year, d.month, d.day, m \div 60, m % 60)

\* The comparisons of aware datetimes.
dt_le(a, b) == timestamp(a) <= timestamp(b)
dt_lt(a, b) == timestamp(a) < timestamp(b)

(***************************************************************************)
(* Characters.  The model's alphabet names one or more members of every    *)
(* class the code's tests tell apart: str.isdigit(), int(), and the        *)
(* classes \d, \w, [a-z], . and [\w.] of the re module under re.UNICODE.   *)
(***************************************************************************)
AsciiDigits == {"0", "1", "2", "3", "4", "5", "6", "7", "8", "9"}
\* Decimal digits of another script (Unicode category Nd): ARABIC-INDIC 1..3.
OtherDecimals == {"ar1", "ar2", "ar3"}
\* Digits that are not decimal (category No): SUPERSCRIPT TWO.
NonDecimalDigits == {"sup2"}
AsciiLower == {"a", "b", "c", "d", "e", "f", "g", "h", "i", "j", "k", "l", "m",
               "n", "o", "p", "q", "r", "s", "t", "u", "v", "w", "x", "y", "z"}
AsciiUpper == {"A", "Z"}
\* A letter outside ASCII: LATIN SMALL LETTER E WITH ACUTE.
OtherLetters == {"eacute"}
Punctuation == {"-", " ", "+", "@"}
Alphabet == AsciiDigits \cup OtherDecimals \cup NonDecimalDigits \cup AsciiLower
            \cup AsciiUpper \cup OtherLetters \cup Punctuation
            \cup {"_", ".", "nl"}

\* The value of a decimal digit character (unicodedata.decimal).
decimal_value(c) ==
    CASE c = "0" -> 0 [] c = "1" -> 1 [] c = "2" -> 2 [] c = "3" -> 3
      [] c = "4" -> 4 [] c = "5" -> 5 [] c = "6" -> 6 [] c = "7" -> 7
      [] c = "8" -> 8 [] c = "9" -> 9
      [] c = "ar1" -> 1 [] c = "ar2" -> 2 [] c = "ar3" -> 3

\* str.isdigit(): non-empty and every character has the digit property.
isdigit(s) ==
    /\ Len(s) > 0
    /\ \A i \in 1..Len(s) :
          s[i] \in AsciiDigits \cup OtherDecimals \cup NonDecimalDigits

(***************************************************************************)
(* Unbounded non-negative integers as digit sequences.                     *)
(***************************************************************************)
RECURSIVE strip_zeros(_)
strip_zeros(ds) ==
    IF Len(ds) > 1 /\ Head(ds) = 0 THEN strip_zeros(Tail(ds)) ELSE ds

RECURSIVE digits_lt(_, _)
digits_lt(a, b) ==          \* a, b of equal length, most significant first
    IF a = <<>> THEN FALSE
    ELSE IF Head(a) # Head(b) THEN Head(a) < Head(b)
    ELSE digits_lt(Tail(a), Tail(b))

int_lt(a, b) ==
    IF Len(a) # Len(b) THEN Len(a) < Len(b) ELSE digits_lt(a, b)

int_le(a, b) == a = b \/ int_lt(a, b)

\* float('inf'), the upper bound of the last range.
Inf == <<>>

\* x < bound, where bound is an int or float('inf').
lt_bound(x, bound) == IF bound = Inf THEN TRUE ELSE int_lt(x, bound)

\* The integer lead * 10^zeros.
times_pow10(lead, zeros) == <<lead>> \o [i \in 1..zeros |-> 0]

\* sys.get_int_max_str_digits() of the interpreter as it is started: int()
\* refuses a string of more decimal digits (leading zeros counted).
int_max_str_digits == 4300

\* int(s) of a str that passed isdigit(): the decimal digits of any script
\* are accepted, leading zeros dropped; a digit that is not decimal, or more
\* than int_max_str_digits digits, raises ValueError.
py_int(s) ==
    IF /\ \A i \in 1..Len(s) : s[i] \in AsciiDigits \cup OtherDecimals
       /\ Len(s) <= int_max_str_digits
    THEN [kind |-> "return",
          value |-> strip_zeros([i \in 1..Len(s) |-> decimal_value(s[i])])]
    ELSE [kind |-> "raise", value |-> "ValueError"]

\* str(n) of a non-negative int: its decimal digits; an int of more than
\* int_max_str_digits digits raises ValueError, as in int().
py_str(n) ==
    IF Len(n) <= int_max_str_digits
    THEN [kind |-> "return", value |-> [i \in 1..Len(n) |-> ToString(n[i])]]
    ELSE [kind |-> "raise", value |-> "ValueError"]

(***************************************************************************)
(* Configuration constants.                                                *)
(***************************************************************************)
Range(min_id, max_id, date) ==
    [min_id |-> min_id, max_id |-> max_id, date |-> date]

USER_ID_RANGES == <<
    Range(<<0>>,     times_pow10(1, 8),  datetime(2016, 9, 1)),
    Range(times_pow10(1, 8),   times_pow10(5, 8),  datetime(2017, 1, 1)),
    Range(times_pow10(5, 8),   times_pow10(1, 9),  datetime(2017, 6, 1)),
    Range(times_pow10(1, 9),   times_pow10(2, 9),  datetime(2018, 1, 1)),
    Range(times_pow10(2, 9),   times_pow10(5, 9),  datetime(2018, 8, 1)),
    Range(times_pow10(5, 9),   times_pow10(1, 10), datetime(2019, 3, 1)),
    Range(times_pow10(1, 10),  times_pow10(2, 10), datetime(2019, 9, 1)),
    Range(times_pow10(2, 10),  times_pow10(5, 10), datetime(2020, 3, 1)),
    Range(times_pow10(5, 10),  times_pow10(1, 11), datetime(2020, 9, 1)),
    Range(times_pow10(1, 11),  times_pow10(2, 11), datetime(2021, 3, 1)),
    Range(times_pow10(2, 11),  times_pow10(5, 11), datetime(2021, 9, 1)),
    Range(times_pow10(5, 11),  times_pow10(1, 12), datetime(2022, 3, 1)),
    Range(times_pow10(1, 12),  times_pow10(2, 12), datetime(2022, 9, 1)),
    Range(times_pow10(2, 12),  times_pow10(5, 12), datetime(2023, 3, 1)),
    Range(times_pow10(5, 12),  times_pow10(1, 13), datetime(2023, 9, 1)),
    Range(times_pow10(1, 13),  times_pow10(2, 13), datetime(2024, 3, 1)),
    Range(times_pow10(2, 13),  Inf,      datetime(2024, 9, 1)) >>

(***************************************************************************)
(* Regular expressions: a pattern is a sequence of items, each a character *)
(* class repeated between lo and hi times (hi = -1: no upper limit),       *)
(* matched from the start of the string as re.match does; `dollar` says    *)
(* whether the pattern ends in $, which matches at the end of the string   *)
(* and just before a newline that ends it.                                 *)
(***************************************************************************)
ClassDigit == AsciiDigits \cup OtherDecimals                      \* \d
ClassLower == AsciiLower                                          \* [a-z]
ClassWord == AsciiDigits \cup OtherDecimals \cup NonDecimalDigits \* \w
             \cup AsciiLower \cup AsciiUpper \cup OtherLetters \cup {"_"}
ClassAny == Alphabet \ {"nl"}                                     \* .
ClassWordDot == ClassWord \cup {"."}                              \* [\w.]

Item(cls, lo, hi) == [cls |-> cls, lo |-> lo, hi |-> hi]
Lit(c) == Item({c}, 1, 1)
Pattern(items, dollar, date) ==
    [items |-> items, dollar |-> dollar, date |-> date]

USERNAME_PATTERNS == <<
    Pattern(<<Lit("u"), Lit("s"), Lit("e"), Lit("r"), Item(ClassDigit, 7, 9)>>,
            TRUE, datetime(2016, 9, 1)),
    Pattern(<<Item(ClassLower, 3, 8), Item(ClassDigit, 2, 4)>>,
            TRUE, datetime(2017, 3, 1)),
    Pattern(<<Item(ClassWord, 3, 8)>>, TRUE, datetime(2017, 9, 1)),
    Pattern(<<Item(ClassAny, 1, 8)>>, TRUE, datetime(2018, 6, 1)),
    Pattern(<<Item(ClassWordDot, 1, 15)>>, TRUE, datetime(2019, 1, 1)),
    Pattern(<<Item(ClassAny, 0, -1)>>, FALSE, datetime(2020, 1, 1)) >>

\* Whether $ matches at position pos (the next character to read) of s.
at_dollar(s, pos) ==
    \/ pos = Len(s) + 1
    \/ pos = Len(s) /\ s[pos] = "nl"

RECURSIVE match_from(_, _, _, _)
match_from(pattern, i, s, pos) ==
    IF i > Len(pattern.items)
    THEN (pattern.dollar => at_dollar(s, pos))
    ELSE LET item == pattern.items[i]
             most == IF item.hi = -1 \/ item.hi > Len(s) - pos + 1
                     THEN Len(s) - pos + 1 ELSE item.hi
         IN  \E n \in item.lo..most :
                /\ \A k \in pos..(pos + n - 1) : s[k] \in item.cls
                /\ match_from(pattern, i + 1, s, pos + n)

\* re.match(pattern, s, re.UNICODE) is not None.
re_match(pattern, s) == match_from(pattern, 1, s, 1)

(***************************************************************************)
(* Outcomes of a call: a returned value or a raised exception.             *)
(***************************************************************************)
Return(v) == [kind |-> "return", value |-> v]
Raise(x) == [kind |-> "raise", value |-> x]

(***************************************************************************)
(* AgeCalculator.estimate_from_user_id                                     *)
(***************************************************************************)
\* A variant of range_lookup that takes the upper bound as inclusive.
RECURSIVE range_lookup_inclusive(_, _)
range_lookup_inclusive(user_id_int, i) ==
    IF i > Len(USER_ID_RANGES) THEN None
    ELSE IF /\ int_le(USER_ID_RANGES[i].min_id, user_id_int)
            /\ \/ USER_ID_RANGES[i].max_id = Inf
               \/ int_le(user_id_int, USER_ID_RANGES[i].max_id)
         THEN Some(USER_ID_RANGES[i].date)
         ELSE range_lookup_inclusive(user_id_int, i + 1)

\* The for loop over USER_ID_RANGES from entry i on: the date of the first
\* range with min_id <= user_id_int < max_id, None when no range is left.
RECURSIVE range_lookup(_, _)
range_lookup(user_id_int, i) ==
    IF i > Len(USER_ID_RANGES) THEN None
    ELSE IF /\ int_le(USER_ID_RANGES[i].min_id, user_id_int)
            /\ lt_bound(user_id_int, USER_ID_RANGES[i].max_id)
         THEN Some(USER_ID_RANGES[i].date)
         ELSE range_lookup(user_id_int, i + 1)

\* A variant of estimate_from_user_id without the except clause.
estimate_from_user_id_uncaught(user_id) ==
    IF user_id = <<>> \/ ~isdigit(user_id)
    THEN Return(None)
    ELSE LET parsed == py_int(user_id)
         IN  IF parsed.kind = "raise" THEN parsed
             ELSE Return(range_lookup(parsed.value, 1))

estimate_from_user_id(user_id) ==
    IF user_id = <<>> \/ ~isdigit(user_id)
    THEN Return(None)
    ELSE LET parsed == py_int(user_id)
         IN  IF parsed.kind = "raise"
             THEN \* except (ValueError, TypeError): return None
                  (IF parsed.value \in {"ValueError", "TypeError"}
                   THEN Return(None) ELSE parsed)
             ELSE Return(range_lookup(parsed.value, 1))

(***************************************************************************)
(* AgeCalculator.estimate_from_username                                    *)
(***************************************************************************)
\* A variant of pattern_lookup in which the last matching entry wins.
RECURSIVE pattern_lookup_last(_, _)
pattern_lookup_last(username, i) ==
    IF i > Len(USERNAME_PATTERNS)
    THEN Some(USERNAME_PATTERNS[Len(USERNAME_PATTERNS)].date)
    ELSE LET later == pattern_lookup_last(username, i + 1)
         IN  IF \E j \in (i + 1)..Len(USERNAME_PATTERNS) :
                    re_match(USERNAME_PATTERNS[j], username)
             THEN later
             ELSE IF re_match(USERNAME_PATTERNS[i], username)
                  THEN Some(USERNAME_PATTERNS[i].date)
                  ELSE later

\* The for loop over USERNAME_PATTERNS from entry i on; after the loop the
\* date of the last entry is the fallback.
RECURSIVE pattern_lookup(_, _)
pattern_lookup(username, i) ==
    IF i > Len(USERNAME_PATTERNS)
    THEN Some(USERNAME_PATTERNS[Len(USERNAME_PATTERNS)].date)
    ELSE IF re_match(USERNAME_PATTERNS[i], username)
         THEN Some(USERNAME_PATTERNS[i].date)
         ELSE pattern_lookup(username, i + 1)

estimate_from_username(username) ==
    IF username = <<>>
    THEN Return(None)
    ELSE Return(pattern_lookup(username, 1))

(***************************************************************************)
(* AgeCalculator.estimate_from_metrics                                     *)
(***************************************************************************)
Min2(a, b) == IF a <= b THEN a ELSE b

\* int(math.log10(n) * 0.5) for an int n >= 1: the largest k with
\* 10^(2k) <= n.
RECURSIVE int_half_log10(_)
int_half_log10(n) == IF n < 100 THEN 0 ELSE 1 + int_half_log10(n \div 100)

\* int(math.log10(n) * 0.4) for an int 1 <= n < 2^31: the largest k with
\* 10^(5k/2) <= n.  The least n of each k is 317, 10^5, 31622777 and 10^10;
\* the last one is beyond the counts of this model.
int_04_log10(n) ==
    IF n < 317 THEN 0
    ELSE IF n < 100000 THEN 1
    ELSE IF n < 31622777 THEN 2
    ELSE 3

\* min(scores): the earliest datetime of a non-empty list.
RECURSIVE min_date(_)
min_date(scores) ==
    IF Len(scores) = 1 THEN scores[1]
    ELSE LET m == min_date(Tail(scores))
         IN  IF dt_lt(m, scores[1]) THEN m ELSE scores[1]

max_date(a, b) == IF dt_lt(a, b) THEN b ELSE a

base_date == datetime(2021, 1, 1)      \* default for new accounts
earliest_date == datetime(2016, 9, 1)  \* platform launch

\* A variant of follower_score that counts the years upwards.
follower_score_upwards(followers) ==
    IF followers > 0
    THEN <<datetime(2017 + Min2(int_half_log10(followers + 1), 4), 1, 1)>>
    ELSE <<>>

follower_score(followers) ==
    IF followers > 0
    THEN <<datetime(2021 - Min2(int_half_log10(followers + 1), 4), 1, 1)>>
    ELSE <<>>

\* A variant of likes_score that starts from the year after the default.
likes_score_next_year(total_likes) ==
    IF total_likes > 0
    THEN <<datetime(2022 - Min2(int_04_log10(total_likes + 1), 4), 6, 1)>>
    ELSE <<>>

likes_score(total_likes) ==
    IF total_likes > 0
    THEN <<datetime(2021 - Min2(int_04_log10(total_likes + 1), 4), 6, 1)>>
    ELSE <<>>

verified_score(verified) ==
    IF verified THEN <<datetime(2018, 1, 1)>> ELSE <<>>

\* A variant of estimate_from_metrics that gives no estimate when no signal
\* is present.
estimate_from_metrics_abstains(followers, total_likes, verified) ==
    IF followers < 0 \/ total_likes < 0
    THEN Return(None)
    ELSE LET scores == follower_score(followers) \o likes_score(total_likes)
                         \o verified_score(verified)
         IN  IF scores = <<>>
             THEN Return(None)
             ELSE Return(Some(max_date(min_date(scores), earliest_date)))

estimate_from_metrics(followers, total_likes, verified) ==
    IF followers < 0 \/ total_likes < 0
    THEN Return(None)
    ELSE LET scores == follower_score(followers) \o likes_score(total_likes)
                         \o verified_score(verified)
         IN  IF scores = <<>>
             THEN Return(Some(base_date))
             ELSE Return(Some(max_date(min_date(scores), earliest_date)))

(***************************************************************************)
(* AgeCalculator.estimate_account_age: the function body.                  *)
(* The accuracy strings stand for the code's '± 6 months', '± 1 year' and  *)
(* '± 2 years'.                                                            *)
(***************************************************************************)
confidence_scores == [low |-> 1, medium |-> 2, high |-> 3]

Estimate(date, confidence, method) ==
    [date |-> date, confidence |-> confidence, method |-> method]

\* `if est and est <= now: estimates.append({...})`
append_if_valid(estimates, est, t, confidence, method) ==
    IF est # None /\ dt_le(est[1], t)
    THEN Append(estimates, Estimate(est[1], confidence, method))
    ELSE estimates

\* A variant of weighted_sum that leaves the weights out.
RECURSIVE weighted_sum_plain(_)
weighted_sum_plain(estimates) ==
    IF estimates = <<>> THEN 0
    ELSE timestamp(Head(estimates).date) + weighted_sum_plain(Tail(estimates))

RECURSIVE weighted_sum(_)
weighted_sum(estimates) ==
    IF estimates = <<>> THEN 0
    ELSE timestamp(Head(estimates).date) * Head(estimates).confidence
             + weighted_sum(Tail(estimates))

RECURSIVE total_weight(_)
total_weight(estimates) ==
    IF estimates = <<>> THEN 0
    ELSE Head(estimates).confidence + total_weight(Tail(estimates))

\* A variant of max_confidence that takes the least weight.
RECURSIVE max_confidence_least(_)
max_confidence_least(estimates) ==
    IF Len(estimates) = 1 THEN estimates[1].confidence
    ELSE LET m == max_confidence_least(Tail(estimates))
         IN  IF estimates[1].confidence <= m THEN estimates[1].confidence ELSE m

RECURSIVE max_confidence(_)
max_confidence(estimates) ==
    IF Len(estimates) = 1 THEN estimates[1].confidence
    ELSE LET m == max_confidence(Tail(estimates))
         IN  IF estimates[1].confidence >= m THEN estimates[1].confidence ELSE m

\* next((est['method'] for est in estimates if est['confidence'] == m), 'Combined')
RECURSIVE primary_method(_, _)
primary_method(estimates, m) ==
    IF estimates = <<>> THEN "Combined"
    ELSE IF Head(estimates).confidence = m THEN Head(estimates).method
    ELSE primary_method(Tail(estimates), m)

confidence_level(m) == IF m = 3 THEN "high" ELSE IF m = 2 THEN "medium" ELSE "low"

accuracy_of(level) ==
    IF level = "high" THEN "+/- 6 months"
    ELSE IF level = "medium" THEN "+/- 1 year" ELSE "+/- 2 years"

default_result(t) ==
    [estimated_date |-> t, confidence |-> "very_low", method |-> "Default",
     accuracy |-> "+/- 2 years", all_estimates |-> <<>>]

\* The result of a non-empty list of estimates (lines 205-229).  The
\* weighted sum of midnights is a multiple of every total weight 1..6, so
\* the float division is exact; a total weight of 0 raises.
weighted_result(estimates) ==
    IF total_weight(estimates) = 0
    THEN Raise("ZeroDivisionError")
    ELSE LET final_timestamp == weighted_sum(estimates) \div total_weight(estimates)
             m == max_confidence(estimates)
         IN  Return([estimated_date |-> fromtimestamp(final_timestamp),
                     confidence |-> confidence_level(m),
                     method |-> primary_method(estimates, m),
                     accuracy |-> accuracy_of(confidence_level(m)),
                     all_estimates |-> estimates])

\* A variant of combine without the `if not estimates` branch.
combine_unguarded(estimates, t) ==
    IF estimates = <<>>
    THEN Raise("ZeroDivisionError")
    ELSE weighted_result(estimates)

\* Lines 195-229: the default result when no estimate was kept, the
\* weighted result otherwise.
combine(estimates, t) ==
    IF estimates = <<>>
    THEN Return(default_result(t))
    ELSE weighted_result(estimates)

\* The body run at time t (now = datetime.now(pytz.UTC), read once).  An
\* exception raised by a classifier is not caught here and leaves the call.
account_age_body(a, t) ==
    LET user_id_est == estimate_from_user_id(a.user_id)
        username_est == estimate_from_username(a.username)
        metrics_est == estimate_from_metrics(a.followers, a.total_likes, a.verified)
    IN  IF user_id_est.kind = "raise" THEN user_id_est
        ELSE IF username_est.kind = "raise" THEN username_est
        ELSE IF metrics_est.kind = "raise" THEN metrics_est
        ELSE LET e1 == append_if_valid(<<>>, user_id_est.value, t,
                                       confidence_scores.high, "User ID Analysis")
                 e2 == append_if_valid(e1, username_est.value, t,
                                       confidence_scores.medium, "Username Pattern")
                 e3 == append_if_valid(e2, metrics_est.value, t,
                                       confidence_scores.low, "Profile Metrics")
             IN  combine(e3, t)

(***************************************************************************)
(* functools.lru_cache(maxsize=1000) around estimate_account_age.  The     *)
(* cache is a sequence of [key, value] entries, least recently used first. *)
(* The key is made of the arguments as they are written at the call, the   *)
(* positional ones and then the keyword items in their order, before any   *)
(* default is bound: f(id, name), f(id, name, 0, 0, False) and             *)
(* f(id, name, followers=0) are three keys.  (Keys are compared with ==,   *)
(* so that 0 and False in one position would be one key; the calls of the  *)
(* model keep to the annotated types.)  A hit returns the stored result    *)
(* and makes its entry the most recent.  A miss runs the body with no lock *)
(* held; when the body has returned, its result is stored unless the key   *)
(* has been stored in the meantime, the least recently used entry is       *)
(* dropped beyond maxsize, and the result of the body is returned either   *)
(* way.  A raised exception is not stored.                                 *)
(***************************************************************************)
maxsize == 1000

\* The five parameters as the body of estimate_account_age sees them.
Args(user_id, username, followers, total_likes, verified) ==
    [user_id |-> user_id, username |-> username, followers |-> followers,
     total_likes |-> total_likes, verified |-> verified]

\* A call as it is written: the positional values, and the keyword items
\* <<name, value>> in their order.
Call(pos, kw) == [pos |-> pos, kw |-> kw]

Params == <<"user_id", "username", "followers", "total_likes", "verified">>

\* followers: int = 0, total_likes: int = 0, verified: bool = False
default_of(name) == IF name = "verified" THEN FALSE ELSE 0

kw_index(kw, name) ==
    IF \E j \in 1..Len(kw) : kw[j][1] = name
    THEN CHOOSE j \in 1..Len(kw) : kw[j][1] = name
    ELSE 0

\* Python binds the call to the parameters: no more than five positional
\* values, no keyword that is not a parameter, no parameter given both ways,
\* and user_id and username given; anything else is a TypeError.
binds(call) ==
    /\ Len(call.pos) <= Len(Params)
    /\ \A j \in 1..Len(call.kw) :
          \E i \in (Len(call.pos) + 1)..Len(Params) : call.kw[j][1] = Params[i]
    /\ \A i \in 1..2 : i <= Len(call.pos) \/ kw_index(call.kw, Params[i]) > 0

\* The value parameter number i receives from the call.
bound_value(call, i) ==
    IF ~binds(call) THEN Raise("TypeError")
    ELSE IF i <= Len(call.pos) THEN Return(call.pos[i])
    ELSE LET j == kw_index(call.kw, Params[i])
         IN  IF j > 0 THEN Return(call.kw[j][2])
             ELSE Return(default_of(Params[i]))

bind(call) ==
    IF ~binds(call) THEN Raise("TypeError")
    ELSE Return(Args(bound_value(call, 1).value, bound_value(call, 2).value,
                     bound_value(call, 3).value, bound_value(call, 4).value,
                     bound_value(call, 5).value))

\* The cache key of a call.
make_key(call) == <<call.pos, call.kw>>

cache_index(c, key) ==
    IF \E i \in 1..Len(c) : c[i].key = key
    THEN CHOOSE i \in 1..Len(c) : c[i].key = key
    ELSE 0

remove_at(c, i) == SubSeq(c, 1, i - 1) \o SubSeq(c, i + 1, Len(c))

\* The cache after a hit on entry i.
cache_hit(c, i) == Append(remove_at(c, i), c[i])

cache_insert(c, key, value) ==
    LET grown == Append(c, [key |-> key, value |-> value])
    IN  IF Len(grown) > maxsize THEN Tail(grown) ELSE grown

\* The cache after the body of a call that missed has ended with outcome r.
cache_store(c, key, r) ==
    IF r.kind = "return" /\ cache_index(c, key) = 0
    THEN cache_insert(c, key, r.value)
    ELSE c

(***************************************************************************)
(* AgeCalculator.calculate_age, with dateutil's relativedelta(dt1, dt2).   *)
(***************************************************************************)
\* dt + relativedelta(months=n), n of either sign: the month moved by n and
\* the day cut to the length of the month reached.
add_months(dt, n) ==
    LET m0 == (dt.year * 12 + (dt.month - 1)) + n
        year == m0 \div 12
        month == (m0 % 12) + 1
        day == Min2(dt.day, days_in_month(year, month))
    IN  datetime_hm(year, month, day, dt.hour, dt.minute)

\* The adjustment loop of relativedelta(dt1, dt2) for dt2 <= dt1: months is
\* lowered while dt2 + months overshoots dt1.
RECURSIVE adjust_months(_, _, _)
adjust_months(dt1, dt2, months) ==
    IF dt_lt(dt1, add_months(dt2, months))
    THEN adjust_months(dt1, dt2, months - 1)
    ELSE months

\* relativedelta(dt1, dt2) for dt2 <= dt1, normalised: its years, months
\* and days attributes.
relativedelta(dt1, dt2) ==
    LET months == adjust_months(dt1, dt2,
                      (dt1.year - dt2.year) * 12 + (dt1.month - dt2.month))
        dtm == add_months(dt2, months)
    IN  [years |-> months \div 12,
         months |-> months % 12,
         days |-> (timestamp(dt1) - timestamp(dtm)) \div MinutesPerDay]

\* A Python object handed to calculate_age: a datetime or something else.
PyDatetime(dt) == [type |-> "datetime", value |-> dt]
PyNone == [type |-> "NoneType", value |-> "None"]
PyStr(s) == [type |-> "str", value |-> s]

\* A variant of plural that adds the "s" from a count of one on.
plural_from_one(n, unit) ==
    ToString(n) \o " " \o unit \o (IF n >= 1 THEN "s" ELSE "")

\* f"{n} {unit}{'s' if n > 1 else ''}"
plural(n, unit) == ToString(n) \o " " \o unit \o (IF n > 1 THEN "s" ELSE "")

\* A naive datetime is given tzinfo UTC (line 268): in this model every
\* datetime is already a UTC one.
calculate_age(created_date, t) ==
    IF created_date.type # "datetime"
    THEN Return("0 days")
    ELSE IF dt_lt(t, created_date.value)
    THEN Return("0 days")
    ELSE LET diff == relativedelta(t, created_date.value)
         IN  IF diff.years > 0
             THEN (IF diff.months > 0
                   THEN Return(plural(diff.years, "year") \o " and "
                                   \o plural(diff.months, "month"))
                   ELSE Return(plural(diff.years, "year")))
             ELSE IF diff.months > 0
             THEN Return(plural(diff.months, "month"))
             ELSE IF diff.days > 0
             THEN Return(plural(diff.days, "day"))
             ELSE Return("0 days")

(***************************************************************************)
(* The bounded sets of inputs.                                              *)
(***************************************************************************)
MaxCalls == 2      \* calls of estimate_account_age in one behaviour
MaxStrLen == 3     \* length of the exhaustively enumerated strings
MaxIdLen == 15     \* decimal digits of the enumerated user ids

\* Every string of at most n characters of `chars`.
StringsUpTo(chars, n) == UNION {[1..k -> chars] : k \in 0..n}

\* Non-negative ids: 0..9, and for every length the ids a ff...f z around
\* the powers of ten and their multiples by 2 and 5 (the table's bounds, the
\* ids just below and just above them, and ids inside the ranges).
IdValues ==
    {<<d>> : d \in 0..9} \cup
    {<<a>> \o [i \in 1..k |-> f] \o <<z>> :
        a \in {1, 2, 4, 5, 9}, f \in {0, 9}, z \in {0, 1, 9}, k \in 0..(MaxIdLen - 2)}

\* The largest ids str() and int() convert, and the first one they refuse.
LongIdValues ==
    {[i \in 1..int_max_str_digits |-> 1], [i \in 1..int_max_str_digits |-> 9],
     times_pow10(1, int_max_str_digits)}

\* A string of digits one longer than int() accepts; it is str(id) of no id.
LongDigitStrings == {[i \in 1..(int_max_str_digits + 1) |-> "1"]}

UserIdChars == {"0", "7", "a", "-", " ", "+", "sup2", "ar2"}

UserIdInputs ==
    {py_str(n).value : n \in {m \in IdValues \cup LongIdValues :
                                  py_str(m).kind = "return"}}
    \cup LongDigitStrings
    \cup StringsUpTo(UserIdChars, MaxStrLen)
    \cup {<<"0", "0", "0", "0", "0", "0", "0", "0", "0", "0", "1">>,
          <<"3", "0", "0", "0", "0", "0", "0", "0", "0", "a">>,
          <<"ar1", "ar2", "ar3", "ar1", "ar2", "ar3", "ar1", "ar2", "ar3">>}

UsernameChars == {"a", "1", "A", "_", ".", "-", "nl", "eacute", "sup2"}

UsernameInputs ==
    StringsUpTo(UsernameChars, MaxStrLen)
    \cup {<<"u", "s", "e", "r", "1", "2", "3", "4", "5", "6", "7">>,
          <<"u", "s", "e", "r", "1", "2", "3", "4", "5", "6", "7", "nl">>,
          <<"u", "s", "e", "r", "1", "2", "3", "4", "5", "6">>,
          <<"u", "s", "e", "r", "1", "2", "3", "4", "5", "6", "7", "8", "9", "0">>,
          <<"u", "s", "e", "r", "ar1", "ar2", "ar3", "ar1", "ar2", "ar3", "ar1">>,
          <<"a", "b", "c", "1", "2", "3">>,
          <<"a", "b", "c", "1">>,
          <<"A", "b", "c", "1", "2", "3">>,
          <<"a", "b", "c", "d", "e", "f", "g", "h">>,
          <<"a", "b", "c", "d", "e", "f", "g", "h", "i">>,
          <<"a", "b", "-", "d", "e", "f", "g", "h">>,
          <<"a", "b", "-", "d", "e", "f", "g", "h", "i">>,
          <<"a", "b", ".", "d", "e", "f", "g", "h", "i", "j", "k", "l", "m", "n", "o">>,
          <<"a", "b", ".", "d", "e", "f", "g", "h", "i", "j", "k", "l", "m", "n", "o", "p">>,
          <<"a", "b", ".", "d", "e", "f", "g", "h", "nl">>,
          <<"a", "b", "c", "nl", "nl">>}

FollowerInputs ==
    {-1, 0, 1, 98, 99, 100, 9998, 9999, 999998, 999999, 99999998, 99999999,
     2147483646}

LikesInputs ==
    {-1, 0, 1, 315, 316, 99998, 99999, 31622775, 31622776, 2147483646}

\* The wall clock of the calls of estimate_account_age: around the latest
\* date of the tables, 2024-09-01.
ClockValues ==
    {datetime_hm(2024, 8, 31, 23, 59), datetime(2024, 9, 1),
     datetime_hm(2024, 9, 1, 0, 1)}

InitialClock == datetime_hm(2024, 8, 31, 23, 59)

Id3e9 == py_str(times_pow10(3, 9)).value      \* "3000000000"
Id2e13 == py_str(times_pow10(2, 13)).value    \* "20000000000000"
NameXX == <<"x", "x">>                  \* "xx"

AccountInputs ==
    {Args(u, n, f, 0, FALSE) : u \in {<<>>, Id3e9}, n \in {<<>>, NameXX},
                               f \in {-1, 0}}
    \cup {Args(Id2e13, <<>>, -1, 0, FALSE),
          Args(Id2e13, NameXX, 99, 5, TRUE),
          Args(<<"sup2">>, NameXX, 0, -1, FALSE),
          Args(<<"1", "2", "a">>,
               <<"u", "s", "e", "r", "1", "2", "3", "4", "5", "6", "7">>,
               99999999, 400, TRUE)}

\* The same five values written with every argument in place.
Positional(a) ==
    Call(<<a.user_id, a.username, a.followers, a.total_likes, a.verified>>, <<>>)

\* The calls made: each tuple of AccountInputs with its five arguments in
\* place, and the other ways of writing ("20000000000000", "", 0, 0, False).
AccountCalls ==
    {Positional(a) : a \in AccountInputs}
    \cup {Positional(Args(Id2e13, <<>>, 0, 0, FALSE)),
          Call(<<Id2e13, <<>>>>, <<>>),
          Call(<<Id2e13, <<>>>>, <<<<"followers", 0>>>>),
          Call(<<>>, <<<<"user_id", Id2e13>>, <<"username", <<>>>>>>)}

\* The clock of the calls of calculate_age, and the dates handed to it.
AgeClockValues ==
    {datetime_hm(2024, 3, 31, 12, 0), datetime(2024, 2, 29),
     datetime(2025, 1, 1), datetime_hm(2023, 12, 31, 23, 59)}

AgeDates ==
    {datetime_hm(y, m, d, hm[1], hm[2]) :
        y \in 2022..2025, m \in 1..12, d \in {1, 2, 15, 28, 29, 30, 31},
        hm \in {<<0, 0>>, <<12, 0>>, <<23, 59>>}}

AgeInputs(t) ==
    {PyDatetime(c) : c \in {x \in AgeDates : x.day <= days_in_month(x.year, x.month)}}
    \cup {PyDatetime(add_months(t, -k)) : k \in {0, 1, 12, 13, 14, 25}}

NotDates == {PyNone, PyStr("2024-01-01")}

(***************************************************************************)
(* The state machine.                                                      *)
(***************************************************************************)
Init ==
    /\ now = InitialClock
    /\ cache = <<>>
    /\ inflight = EmptyBag
    /\ calls = 0
    /\ op = "none"
    /\ args = <<>>
    /\ ret = Return(None)

\* Time passes.
Tick ==
    /\ \E t \in ClockValues : dt_lt(now, t) /\ now' = t
    /\ UNCHANGED <<cache, inflight, calls, op, args, ret>>

\* The wrapper is called: it makes the key and looks it up.  A hit returns
\* the stored result at once; a miss calls the function, which raises
\* TypeError if the call does not bind and else goes on to the body.
CallWrapper(call) ==
    LET i == cache_index(cache, make_key(call))
    IN  IF i > 0
        THEN /\ op' = "estimate_account_age"
             /\ args' = bind(call).value
             /\ ret' = Return(cache[i].value)
             /\ cache' = cache_hit(cache, i)
             /\ UNCHANGED inflight
        ELSE IF bind(call).kind = "raise"
        THEN /\ op' = "estimate_account_age"
             /\ args' = call
             /\ ret' = bind(call)
             /\ UNCHANGED <<cache, inflight>>
        ELSE /\ inflight' = inflight (+) SetToBag({[call |-> call, read |-> None]})
             /\ UNCHANGED <<cache, op, args, ret>>

\* A caller calls AgeCalculator.estimate_account_age.
EstimateAccountAge ==
    /\ calls < MaxCalls
    /\ \E call \in AccountCalls : CallWrapper(call)
    /\ calls' = calls + 1
    /\ UNCHANGED now

\* The body of a call that missed reads the clock, line 169.
ReadClock ==
    /\ \E c \in BagToSet(inflight) :
          /\ c.read = None
          /\ inflight' = (inflight (-) SetToBag({c}))
                            (+) SetToBag({[c EXCEPT !.read = Some(now)]})
    /\ UNCHANGED <<now, cache, calls, op, args, ret>>

\* The body ends with the result for the clock it read; the wrapper stores
\* it and the call returns.
StoreAndReturn ==
    /\ \E c \in BagToSet(inflight) :
          /\ c.read # None
          /\ LET r == account_age_body(bind(c.call).value, c.read[1])
             IN  /\ op' = "estimate_account_age"
                 /\ args' = bind(c.call).value
                 /\ ret' = r
                 /\ cache' = cache_store(cache, make_key(c.call), r)
          /\ inflight' = inflight (-) SetToBag({c})
    /\ UNCHANGED <<now, calls>>

Next == Tick \/ EstimateAccountAge \/ ReadClock \/ StoreAndReturn

Spec == Init /\ [][Next]_vars

\* The classifiers and the formatter, each applied to inputs of its own:
\* the initial state holds the input, the action applies the function.
InitInput(inputs) ==
    /\ now = InitialClock
    /\ cache = <<>>
    /\ inflight = EmptyBag
    /\ calls = 0
    /\ op = "input"
    /\ args \in inputs
    /\ ret = Return(None)

EstimateFromUserId ==
    /\ op = "input"
    /\ op' = "estimate_from_user_id"
    /\ ret' = estimate_from_user_id(args)
    /\ UNCHANGED <<now, cache, inflight, calls, args>>

SpecUserId == InitInput(UserIdInputs) /\ [][EstimateFromUserId]_vars

EstimateFromUsername ==
    /\ op = "input"
    /\ op' = "estimate_from_username"
    /\ ret' = estimate_from_username(args)
    /\ UNCHANGED <<now, cache, inflight, calls, args>>

SpecUsername == InitInput(UsernameInputs) /\ [][EstimateFromUsername]_vars

\* estimate_from_metrics called again and again, so that every two inputs
\* follow one another.
InitMetrics ==
    /\ now = InitialClock
    /\ cache = <<>>
    /\ inflight = EmptyBag
    /\ calls = 0
    /\ op = "none"
    /\ args = <<>>
    /\ ret = Return(None)

EstimateFromMetrics ==
    /\ \E f \in FollowerInputs, l \in LikesInputs, v \in BOOLEAN :
          /\ args' = [followers |-> f, total_likes |-> l, verified |-> v]
          /\ ret' = estimate_from_metrics(f, l, v)
    /\ op' = "estimate_from_metrics"
    /\ UNCHANGED <<now, cache, inflight, calls>>

SpecMetrics == InitMetrics /\ [][EstimateFromMetrics]_vars

\* calculate_age reads the clock itself; the initial state holds the clock
\* and the argument.
InitAge ==
    /\ now \in AgeClockValues
    /\ cache = <<>>
    /\ inflight = EmptyBag
    /\ calls = 0
    /\ op = "input"
    /\ \/ args \in AgeInputs(now)
       \/ args \in NotDates
    /\ ret = Return(None)

CalculateAge ==
    /\ op = "input"
    /\ op' = "calculate_age"
    /\ ret' = calculate_age(args, now)
    /\ UNCHANGED <<now, cache, inflight, calls, args>>

SpecAge == InitAge /\ [][CalculateAge]_vars

(***************************************************************************)
(* Properties of estimate_from_user_id (SpecUserId).                       *)
(***************************************************************************)
\* Range i holds the id n: min_id <= n < max_id.
InRange(i, n) ==
    /\ int_le(USER_ID_RANGES[i].min_id, n)
    /\ lt_bound(n, USER_ID_RANGES[i].max_id)

\* The table starts at 0, each range is non-empty and starts where the one
\* before it ends, and the last one has no upper bound.
RangesCoverFromZero ==
    /\ USER_ID_RANGES[1].min_id = <<0>>
    /\ USER_ID_RANGES[Len(USER_ID_RANGES)].max_id = Inf
    /\ \A i \in 1..(Len(USER_ID_RANGES) - 1) :
          /\ USER_ID_RANGES[i].max_id # Inf
          /\ USER_ID_RANGES[i].max_id = USER_ID_RANGES[i + 1].min_id
    /\ \A i \in 1..Len(USER_ID_RANGES) :
          lt_bound(USER_ID_RANGES[i].min_id, USER_ID_RANGES[i].max_id)

\* C1: for every non-negative integer id, estimate_from_user_id(str(id))
\* returns the date of exactly one entry of USER_ID_RANGES, the entry with
\* lower <= id < upper; the ranges are contiguous, do not overlap and cover
\* [0, +infinity), so that no non-negative id is left without an estimate
\* (id ranging over the ints str() converts: beyond int_max_str_digits
\* digits str(id) raises and there is no string to hand to the function).
C1_IdGetsDateOfItsRange ==
    /\ RangesCoverFromZero
    /\ op = "estimate_from_user_id" =>
          \A n \in IdValues \cup LongIdValues :
             (py_str(n).kind = "return" /\ args = py_str(n).value) =>
                /\ ret.kind = "return"
                /\ ret.value # None
                /\ Cardinality({i \in 1..Len(USER_ID_RANGES) : InRange(i, n)}) = 1
                /\ \E i \in 1..Len(USER_ID_RANGES) :
                      /\ InRange(i, n)
                      /\ ret.value = Some(USER_ID_RANGES[i].date)
                /\ Cardinality({i \in 1..Len(USER_ID_RANGES) :
                                   USER_ID_RANGES[i].date = ret.value[1]}) = 1

\* The id 5000000000, an upper bound of one range and the lower bound of the
\* next, has been given the date of the range it opens.
C1_Witness ==
    /\ op = "estimate_from_user_id"
    /\ args = py_str(times_pow10(5, 9)).value
    /\ ret.kind = "return"
    /\ ret.value = Some(datetime(2019, 3, 1))

\* A string that writes a non-negative integer in decimal digits (of any
\* script, as int() reads them).
DecimalRepr(s) ==
    /\ Len(s) > 0
    /\ \A i \in 1..Len(s) : s[i] \in AsciiDigits \cup OtherDecimals

\* C8: estimate_from_user_id returns None for the empty string and for every
\* string that is not a decimal representation of a non-negative integer,
\* and no exception reaches the caller.
C8_MalformedIdGivesNone ==
    op = "estimate_from_user_id" =>
       /\ ret.kind = "return"
       /\ ~DecimalRepr(args) => ret.value = None

\* A string that passes isdigit() and that int() refuses has been answered
\* with None.
C8_Witness ==
    /\ op = "estimate_from_user_id"
    /\ args = <<"7", "sup2">>
    /\ ret.kind = "return"
    /\ ret.value = None

(***************************************************************************)
(* Properties of estimate_from_username (SpecUsername).                    *)
(***************************************************************************)
\* C7: for every non-empty username estimate_from_username returns the date
\* of the first entry of USERNAME_PATTERNS whose pattern matches; the last
\* entry matches any string, so a date is always returned; for the empty
\* string it returns None.
C7_FirstMatchingPattern ==
    /\ re_match(USERNAME_PATTERNS[Len(USERNAME_PATTERNS)], args)
    /\ op = "estimate_from_username" =>
          /\ ret.kind = "return"
          /\ IF args = <<>>
             THEN ret.value = None
             ELSE \E i \in 1..Len(USERNAME_PATTERNS) :
                     /\ re_match(USERNAME_PATTERNS[i], args)
                     /\ \A j \in 1..(i - 1) : ~re_match(USERNAME_PATTERNS[j], args)
                     /\ ret.value = Some(USERNAME_PATTERNS[i].date)

\* A username that three patterns match has been given the date of the
\* first of them.
C7_Witness ==
    /\ op = "estimate_from_username"
    /\ args = <<"a", "b", "c", "1", "2", "3">>
    /\ re_match(USERNAME_PATTERNS[2], args)
    /\ re_match(USERNAME_PATTERNS[3], args)
    /\ re_match(USERNAME_PATTERNS[4], args)
    /\ ret.value = Some(datetime(2017, 3, 1))

(***************************************************************************)
(* Properties of estimate_from_metrics (SpecMetrics).                      *)
(***************************************************************************)
ValidMetrics(a) == a.followers >= 0 /\ a.total_likes >= 0

\* C3 as stated: for followers >= 0 and total_likes >= 0 the date returned
\* by estimate_from_metrics never precedes the launch date 2016-09-01 and
\* never follows the default date 2021-01-01.
C3_NeverAfterDefaultDate ==
    (op = "estimate_from_metrics" /\ ValidMetrics(args)) =>
       /\ ret.value # None
       /\ dt_le(earliest_date, ret.value[1])
       /\ dt_le(ret.value[1], base_date)

\* C3 amended: the date never precedes the launch date 2016-09-01 and never
\* follows 2021-06-01; it follows the default date 2021-01-01 exactly when
\* the likes are the only signal and are fewer than 316.
C3_WithinLaunchAndJune2021 ==
    (op = "estimate_from_metrics" /\ ValidMetrics(args)) =>
       /\ ret.kind = "return"
       /\ ret.value # None
       /\ dt_le(earliest_date, ret.value[1])
       /\ dt_le(ret.value[1], datetime(2021, 6, 1))
       /\ dt_lt(base_date, ret.value[1]) <=>
             /\ args.followers = 0
             /\ ~args.verified
             /\ args.total_likes \in 1..315

\* One like and nothing else has given 2021-06-01, after the default date.
C3_Witness ==
    /\ op = "estimate_from_metrics"
    /\ args = [followers |-> 0, total_likes |-> 1, verified |-> FALSE]
    /\ ret.value = Some(datetime(2021, 6, 1))

\* Two calls in a row with the same total_likes and verified flag, the
\* second with at least as many followers.
MoreFollowersNext ==
    /\ op = "estimate_from_metrics"
    /\ op' = "estimate_from_metrics"
    /\ ValidMetrics(args)
    /\ ValidMetrics(args')
    /\ args'.total_likes = args.total_likes
    /\ args'.verified = args.verified
    /\ args.followers <= args'.followers

\* C4 as stated: for fixed total_likes and verified and followers f1 <= f2,
\* the year of the estimate for f2 is not lower than the year for f1.
C4_YearNotLowerWithMoreFollowers ==
    [][MoreFollowersNext => ret'.value[1].year >= ret.value[1].year]_vars

\* C4 amended: for fixed total_likes and verified and followers f1 <= f2,
\* the year of the estimate for f2 is not higher than the year for f1.
C4_YearNotHigherWithMoreFollowers ==
    [][MoreFollowersNext => ret'.value[1].year <= ret.value[1].year]_vars

\* 99,999,999 followers and nothing else have given the year 2017, four
\* years before the year of an account with no followers.
C4_Witness ==
    /\ op = "estimate_from_metrics"
    /\ args = [followers |-> 99999999, total_likes |-> 0, verified |-> FALSE]
    /\ ret.value = Some(datetime(2017, 1, 1))
    /\ estimate_from_metrics(0, 0, FALSE).value = Some(datetime(2021, 1, 1))

(***************************************************************************)
(* Properties of calculate_age (SpecAge).                                  *)
(***************************************************************************)
\* The whole calendar months from c to t: the k with c + k months <= t and
\* t < c + (k + 1) months.
ElapsedMonths(c, t) ==
    CHOOSE k \in 0..120 :
        /\ dt_le(add_months(c, k), t)
        /\ dt_lt(t, add_months(c, k + 1))

\* The whole days left after the whole months.
ElapsedDays(c, t) ==
    (timestamp(t) - timestamp(add_months(c, ElapsedMonths(c, t)))) \div MinutesPerDay

\* "<n> <unit>", with an "s" exactly when n > 1.
Counted(n, unit) == ToString(n) \o " " \o unit \o (IF n > 1 THEN "s" ELSE "")

AgeText(Y, M, D) ==
    IF Y > 0
    THEN (IF M > 0 THEN Counted(Y, "year") \o " and " \o Counted(M, "month")
          ELSE Counted(Y, "year"))
    ELSE IF M > 0 THEN Counted(M, "month")
    ELSE IF D = 0 THEN "0 days"
    ELSE Counted(D, "day")

\* C10: calculate_age returns "0 days" for a date in the future and for a
\* value that is not a date; otherwise, with Y, M, D the elapsed calendar
\* years, months and days, "Y year(s)" followed by " and M month(s)" only
\* when M > 0 if Y > 0, else "M month(s)" if M > 0, else "D day(s)" ("0 days"
\* if D = 0), the unit taking "s" exactly when its count exceeds 1; a date
\* exactly 13 months before now gives "1 year and 1 month".
C10_AgeText ==
    op = "calculate_age" =>
       /\ ret.kind = "return"
       /\ IF args.type # "datetime" THEN ret.value = "0 days"
          ELSE IF dt_lt(now, args.value) THEN ret.value = "0 days"
          ELSE /\ ret.value = AgeText(ElapsedMonths(args.value, now) \div 12,
                                      ElapsedMonths(args.value, now) % 12,
                                      ElapsedDays(args.value, now))
               /\ args.value = add_months(now, -13) =>
                     ret.value = "1 year and 1 month"

\* On 2024-03-31 the date 13 months before, 2023-02-28 (the day cut to the
\* length of February), has given "1 year and 1 month".
C10_Witness ==
    /\ op = "calculate_age"
    /\ now = datetime_hm(2024, 3, 31, 12, 0)
    /\ args.type = "datetime"
    /\ args.value = datetime_hm(2023, 2, 28, 12, 0)
    /\ args.value = add_months(now, -13)
    /\ ret.value = "1 year and 1 month"

(***************************************************************************)
(* Properties of estimate_account_age (Spec).                              *)
(***************************************************************************)
Called == op = "estimate_account_age"

NoSignalArgs == Args(<<>>, <<>>, 0, 0, FALSE)

\* C2 as stated: estimate_account_age("", "", 0, 0, False) returns
\* confidence 'very_low' and an estimated_date equal to the current time.
C2_NoSignalGivesVeryLow ==
    (Called /\ args = NoSignalArgs) =>
       /\ ret.kind = "return"
       /\ ret.value.confidence = "very_low"
       /\ ret.value.estimated_date = now

\* C2 amended: estimate_account_age("", "", 0, 0, False) returns confidence
\* 'low', method 'Profile Metrics', accuracy '± 2 years' and the default
\* date of the metrics, 2021-01-01, as estimated_date: the metrics
\* classifier gives its default date when no metric is present, so one
\* estimate remains.
C2_NoSignalGivesMetricsDefault ==
    (Called /\ args = NoSignalArgs) =>
       /\ ret.kind = "return"
       /\ ret.value.confidence = "low"
       /\ ret.value.method = "Profile Metrics"
       /\ ret.value.accuracy = "+/- 2 years"
       /\ ret.value.estimated_date = datetime(2021, 1, 1)
       /\ ret.value.all_estimates =
             <<Estimate(datetime(2021, 1, 1), 1, "Profile Metrics")>>

\* The call without any signal has returned the default date of the metrics.
C2_Witness ==
    /\ Called
    /\ args = NoSignalArgs
    /\ ret.value.confidence = "low"
    /\ ret.value.estimated_date = base_date
    /\ dt_lt(base_date, now)

IdAndNameArgs == Args(Id3e9, NameXX, 0, 0, FALSE)

\* C5 as stated: estimate_account_age("3000000000", "xx", 0, 0, False)
\* returns confidence 'high', method 'User ID Analysis' and an
\* estimated_date between the username estimate and the identifier
\* estimate 2018-08-01, closer to 2018-08-01.
C5_BetweenNameAndIdEstimates ==
    (Called /\ args = IdAndNameArgs) =>
       LET d == timestamp(ret.value.estimated_date)
           u == timestamp(estimate_from_username(NameXX).value[1])
           i == timestamp(datetime(2018, 8, 1))
       IN  /\ ret.value.confidence = "high"
           /\ ret.value.method = "User ID Analysis"
           /\ u <= d
           /\ d <= i
           /\ i - d < d - u

\* C5 amended: estimate_account_age("3000000000", "xx", 0, 0, False) returns
\* confidence 'high', method 'User ID Analysis' and as estimated_date the
\* weighted mean of three estimates, the identifier's 2018-08-01 (weight
\* 3), the username's 2018-06-01 (weight 2) and the default date of the
\* metrics 2021-01-01 (weight 1): 2018-12-06, later than both the username
\* and the identifier estimate.
C5_MeanOfThreeEstimates ==
    (Called /\ args = IdAndNameArgs) =>
       /\ ret.kind = "return"
       /\ ret.value.confidence = "high"
       /\ ret.value.method = "User ID Analysis"
       /\ ret.value.all_estimates =
             <<Estimate(datetime(2018, 8, 1), 3, "User ID Analysis"),
               Estimate(datetime(2018, 6, 1), 2, "Username Pattern"),
               Estimate(datetime(2021, 1, 1), 1, "Profile Metrics")>>
       /\ 6 * timestamp(ret.value.estimated_date) =
             3 * timestamp(datetime(2018, 8, 1))
               + 2 * timestamp(datetime(2018, 6, 1))
               + timestamp(datetime(2021, 1, 1))
       /\ ret.value.estimated_date = datetime(2018, 12, 6)
       /\ dt_lt(datetime(2018, 8, 1), ret.value.estimated_date)

\* The call with the identifier and the username has returned 2018-12-06.
C5_Witness ==
    /\ Called
    /\ args = IdAndNameArgs
    /\ ret.value.method = "User ID Analysis"
    /\ Len(ret.value.all_estimates) = 3
    /\ ret.value.estimated_date = datetime(2018, 12, 6)

\* The label and the accuracy band of a weight.
LabelOfWeight(w) == CASE w = 3 -> "high" [] w = 2 -> "medium" [] w = 1 -> "low"
BandOfLabel(l) ==
    CASE l = "high" -> "+/- 6 months" [] l = "medium" -> "+/- 1 year"
      [] l = "low" -> "+/- 2 years"

\* C6: whenever at least one estimate contributes, estimate_account_age
\* returns the label of the greatest weight among the contributing
\* estimates (3 high, 2 medium, 1 low), the accuracy band of that label and
\* as method the label of the first estimate, in identifier, username,
\* metrics order, whose weight is that maximum; a lone high-confidence
\* estimate gives 'high', '± 6 months', 'User ID Analysis'.
C6_LabelBandAndMethodOfMaxWeight ==
    (Called /\ ret.kind = "return" /\ ret.value.all_estimates # <<>>) =>
       LET es == ret.value.all_estimates
           m == CHOOSE w \in {es[i].confidence : i \in 1..Len(es)} :
                    \A i \in 1..Len(es) : es[i].confidence <= w
           first == CHOOSE i \in 1..Len(es) :
                        /\ es[i].confidence = m
                        /\ \A j \in 1..(i - 1) : es[j].confidence # m
       IN  /\ ret.value.confidence = LabelOfWeight(m)
           /\ ret.value.accuracy = BandOfLabel(LabelOfWeight(m))
           /\ ret.value.method = es[first].method
           /\ \A i \in 1..(Len(es) - 1) :
                 es[i].method # es[i + 1].method
                 /\ <<es[i].method, es[i + 1].method>> \in
                       {<<"User ID Analysis", "Username Pattern">>,
                        <<"User ID Analysis", "Profile Metrics">>,
                        <<"Username Pattern", "Profile Metrics">>}
           /\ (Len(es) = 1 /\ es[1].confidence = 3) =>
                 /\ ret.value.confidence = "high"
                 /\ ret.value.accuracy = "+/- 6 months"
                 /\ ret.value.method = "User ID Analysis"

\* The identifier alone has contributed (no username, a negative count):
\* a lone high-confidence estimate.
C6_Witness ==
    /\ Called
    /\ args = Args(Id3e9, <<>>, -1, 0, FALSE)
    /\ ret.value.all_estimates =
          <<Estimate(datetime(2018, 8, 1), 3, "User ID Analysis")>>
    /\ ret.value.confidence = "high"
    /\ ret.value.accuracy = "+/- 6 months"
    /\ ret.value.method = "User ID Analysis"

\* What a classifier's outcome contributes when it is kept.
Contribution(out, confidence, method) ==
    IF out.kind = "return" /\ out.value # None
    THEN {Estimate(out.value[1], confidence, method)}
    ELSE {}

\* The contributions of the three classifiers to a call with arguments a
\* whose dates are not after time t.
ContributionsBy(a, t) ==
    {c \in Contribution(estimate_from_user_id(a.user_id), 3, "User ID Analysis")
            \cup Contribution(estimate_from_username(a.username), 2,
                              "Username Pattern")
            \cup Contribution(estimate_from_metrics(a.followers, a.total_likes,
                                                    a.verified), 1,
                              "Profile Metrics") :
        dt_le(c.date, t)}

\* C9: estimate_account_age has no fatal error path: for every identifier
\* string, username string, integer followers and total_likes and boolean
\* verified it returns a result with estimated_date, confidence (one of
\* very_low, low, medium, high), method, accuracy and all_estimates; an
\* invalid input makes its own classifier abstain, and the estimates of the
\* other classifiers (those dated before the first call, which no clock
\* reading can make future ones) still contribute.
C9_AlwaysAResult ==
    Called =>
       /\ ret.kind = "return"
       /\ DOMAIN ret.value =
             {"estimated_date", "confidence", "method", "accuracy", "all_estimates"}
       /\ ret.value.confidence \in {"very_low", "low", "medium", "high"}
       /\ ret.value.method \in
             {"Default", "User ID Analysis", "Username Pattern", "Profile Metrics"}
       /\ ret.value.accuracy \in {"+/- 6 months", "+/- 1 year", "+/- 2 years"}
       /\ ret.value.estimated_date.month \in 1..12
       /\ ret.value.estimated_date.day \in
             1..days_in_month(ret.value.estimated_date.year,
                              ret.value.estimated_date.month)
       /\ LET es == ret.value.all_estimates
              has(method) == \E i \in 1..Len(es) : es[i].method = method
          IN  /\ ~DecimalRepr(args.user_id) => ~has("User ID Analysis")
              /\ args.username = <<>> => ~has("Username Pattern")
              /\ ~ValidMetrics(args) => ~has("Profile Metrics")
              /\ \A c \in ContributionsBy(args, InitialClock) :
                    \E i \in 1..Len(es) : es[i] = c

\* An identifier that int() refuses and a negative count have left the
\* username's estimate alone in the result.
C9_Witness ==
    /\ Called
    /\ args = Args(<<"sup2">>, NameXX, 0, -1, FALSE)
    /\ ret.kind = "return"
    /\ ret.value.all_estimates =
          <<Estimate(datetime(2018, 6, 1), 2, "Username Pattern")>>
    /\ ret.value.confidence = "medium"

(***************************************************************************)
(* Calls repeated while time advances.                                     *)
(***************************************************************************)
\* The step ends a call whose current time is the clock reading t0: a hit,
\* which begins and ends at the present reading, or the return of a call
\* that missed, whose body read t0 at line 169.
Returns(t0) ==
    \/ /\ calls' = calls + 1
       /\ inflight' = inflight
       /\ t0 = now
    \/ \E c \in BagToSet(inflight) :
          /\ c.read # None
          /\ inflight' = inflight (-) SetToBag({c})
          /\ t0 = c.read[1]

\* The clock readings from t0 to t1.
Window(t0, t1) == {t \in ClockValues : dt_le(t0, t) /\ dt_le(t, t1)}

\* C11: in any sequence of calls to estimate_account_age while time
\* advances, every call for which no estimate remains (no classifier output
\* dated at or before its current time, nor before it returns) returns the
\* default result: estimated_date equal to the current time of that call
\* (or a later clock reading before it returns), confidence
\* 'very_low', method 'Default', accuracy '+/- 2 years' and empty
\* all_estimates; a repeated call with the arguments of an earlier call
\* included.
C11_DefaultAtTimeOfEachCall ==
    [][\A t0 \in ClockValues :
          (/\ Returns(t0)
           /\ \A t \in Window(t0, now') : ContributionsBy(args', t) = {})
             => \E t \in Window(t0, now') : ret' = Return(default_result(t))]_vars

\* C12: in any sequence of calls to estimate_account_age while time
\* advances, the all_estimates of each returned result are exactly the
\* classifier outputs whose date is not strictly after the current time of
\* that call (or a later clock reading before it returns): an
\* estimate dated in the future at the call is discarded and one dated at or
\* before the current time of the call is kept, also when the same arguments
\* were used in an earlier call.
C12_AllEstimatesFilteredAtEachCall ==
    [][\A t0 \in ClockValues :
          Returns(t0) =>
             /\ ret'.kind = "return"
             /\ \E t \in Window(t0, now') :
                   LET es == ret'.value.all_estimates
                   IN  /\ {es[i] : i \in 1..Len(es)} = ContributionsBy(args', t)
                       /\ Len(es) = Cardinality(ContributionsBy(args', t))]_vars

(***************************************************************************)
(* Callers that change the result they received.  estimate_account_age     *)
(* returns the dictionary it built, and lru_cache stores that same object   *)
(* and hands it to every later call with the same arguments: a stored       *)
(* entry's value is the one object all of those callers hold.  A caller's   *)
(* result['method'] = 'edited' or result['all_estimates'].clear() therefore *)
(* acts on the stored entry; an object whose entry has been dropped is held *)
(* by its callers alone, and so is the result of a call whose key another   *)
(* call stored first.  Callers may also empty the cache, and may write a    *)
(* call that Python cannot bind to the parameters.                          *)
(***************************************************************************)
\* result[key] = value on the object stored at position i.
setitem(c, i, key, value) ==
    [c EXCEPT ![i].value =
        [k \in DOMAIN c[i].value \cup {key} |->
            IF k = key THEN value ELSE c[i].value[k]]]

\* A caller writes to the result mapping it received.
SetResultMethod ==
    /\ \E i \in 1..Len(cache) : cache' = setitem(cache, i, "method", "edited")
    /\ UNCHANGED <<now, inflight, calls, op, args, ret>>

\* A caller empties the all_estimates list of the result it received.
ClearAllEstimates ==
    /\ \E i \in 1..Len(cache) : cache' = setitem(cache, i, "all_estimates", <<>>)
    /\ UNCHANGED <<now, inflight, calls, op, args, ret>>

\* A caller calls AgeCalculator.estimate_account_age.cache_clear().  The
\* results handed out before stay with their callers.
CacheClear ==
    /\ cache' = <<>>
    /\ UNCHANGED <<now, inflight, calls, op, args, ret>>

\* Calls that do not bind: username missing, followers given twice, an
\* unknown keyword, a sixth positional value.
IllFormedCalls ==
    {Call(<<Id2e13>>, <<>>),
     Call(<<Id2e13, NameXX, 5>>, <<<<"followers", 7>>>>),
     Call(<<Id2e13, NameXX>>, <<<<"bogus", 1>>>>),
     Call(<<Id2e13, NameXX, 0, 0, FALSE, 1>>, <<>>)}

\* A caller makes such a call.
IllFormedCall ==
    /\ calls < MaxCalls
    /\ \E call \in IllFormedCalls : CallWrapper(call)
    /\ calls' = calls + 1
    /\ UNCHANGED now

NextCallers ==
    Next \/ SetResultMethod \/ ClearAllEstimates \/ CacheClear \/ IllFormedCall

SpecCallers == Init /\ [][NextCallers]_vars

\* C13: callers of estimate_account_age share no mutable state: whatever
\* the interleaving of calls and of changes callers make to the results they
\* received (the result mapping or its all_estimates list), each call that
\* returns a result returns what a fresh computation on its arguments yields
\* (here: at the current time of the call or at an earlier clock reading, so
\* that a result that is merely out of date does not count against the
\* statement).
C13_ResultIsAFreshComputation ==
    [][((\E t0 \in ClockValues : Returns(t0)) /\ ret'.kind = "return") =>
          \E t \in ClockValues :
             dt_le(t, now') /\ ret' = account_age_body(args', t)]_vars

=============================================================================
